---- MODULE Spec2Model ----
(***************************************************************************)
(* project_to_valid (scripts/sdf_descent.py): a pool of n_candidates noisy *)
(* copies of a seed configuration is moved up a signed-distance field by   *)
(* central-difference gradient ascent for a fixed number of steps.         *)
(*                                                                         *)
(* Numbers.  Lengths are measured in units of the probe size h, so h = 1   *)
(* and configurations live on the integer grid; the SDF oracles below take *)
(* values that are multiples of 2h, so the quotient of line 48 is exact.   *)
(* The generator of line 12 (PCG64, a linear congruential generator with   *)
(* an output permutation) is modelled by a linear congruential generator   *)
(* of reduced width: what the model keeps is that the stream is a function *)
(* of the seed alone and that every draw advances the generator.           *)
(***************************************************************************)
EXTENDS Integers, Sequences, FiniteSets, TLC

(* ------------------------------ bounds --------------------------------- *)
MaxSteps == 2
RobotDim == 2
RngModulus == 32

(* -------------------------- program constants -------------------------- *)
n_candidates == 8
h == 1
Seed == 42

Environments == {"sphere", "saddle"}
LearningRates == {0, 1}
NoiseScales == {0, 1}
StepCounts == 0..MaxSteps

Origin(n) == [k \in 1..n |-> 0]
Ramp(n) == [k \in 1..n |-> k]
ValidConfigs == {Origin(RobotDim), Ramp(RobotDim)}
ShortConfigs == {Origin(RobotDim - 1)}

None == [none |-> TRUE]

VARIABLES
    pc,             \* control location of the caller / of project_to_valid
    q, env, steps, learning_rate, noise_scale,   \* the arguments of the call
    dim,            \* line 8
    rng,            \* state of the generator of line 12
    candidates,     \* line 15: the pool
    step,           \* number of values of range(steps) consumed by line 19
    dists,          \* line 21
    grads,          \* line 28
    i, d,           \* loop indices (1-based)
    original_q, val, f_plus, f_minus,            \* lines 33-43
    nsdf,           \* robot.sdf invocations made by the current call
    evals,          \* probes of the current step: <<i, d, sign>> -> count
    snapshot,       \* the pool when the current step began
    pool0,          \* the pool as line 17 left it
    prior           \* a remembered earlier call: its arguments and pools,
                    \* and whether another call has returned since

vars == <<pc, q, env, steps, learning_rate, noise_scale, dim, rng, candidates,
          step, dists, grads, i, d, original_q, val, f_plus, f_minus, nsdf,
          evals, snapshot, pool0, prior>>

(* ------------------------------ helpers -------------------------------- *)
Abs(x) == IF x < 0 THEN -x ELSE x

RECURSIVE SumTo(_, _)
SumTo(f, n) == IF n = 0 THEN 0 ELSE f[n] + SumTo(f, n - 1)

Zeros(n) == [k \in 1..n |-> 0]

(* robot.sdf(configuration, env): the external oracle, deterministic and   *)
(* free of side effects.  A configuration whose length is not the robot's  *)
(* D is rejected by the oracle (SdfRaises) and the failure propagates.     *)
SdfValue(c, e) ==
    IF e = "sphere"
    THEN 2 * (SumTo([k \in 1..Len(c) |-> Abs(c[k])], Len(c)) - 2)
    ELSE 2 * SumTo([k \in 1..Len(c) |-> c[k] * c[(k % Len(c)) + 1]], Len(c))

sdf(c, e) == SdfValue(c, e)

SdfRaises(c) == Len(c) # RobotDim

(* a generator that goes on from the state the last call left              *)
default_rng_shared(seed) == rng

(* np.random.default_rng(seed), and the generator's step                   *)
default_rng(seed) == seed % RngModulus

Advance(s) == (5 * s + 3) % RngModulus

RECURSIVE Skip(_, _)
Skip(s, n) == IF n = 0 THEN s ELSE Skip(Advance(s), n - 1)

(* one sample of rng.uniform(low, high) from generator state s: a point of *)
(* the half-open interval [low, high), on the grid                         *)
Uniform(low, high, s) == low + ((high - low) * s) \div RngModulus

(* rng.uniform(-noise_scale, noise_scale, (n, m)) from generator state s0: *)
(* row-major, entry (r, k) is draw number (r-1)*m + k                      *)
UniformMatrix(s0, scale, n, m) ==
    [r \in 1..n |-> [k \in 1..m |->
        Uniform(-scale, scale, Skip(s0, (r - 1) * m + k))]]

TileShort(v, n) == [r \in 1..(n - 1) |-> v]

(* np.tile(q, (n, 1))                                                      *)
Tile(v, n) == [r \in 1..n |-> v]

(* candidates += noise                                                     *)
AddNoise(c, noise) ==
    [r \in 1..Len(c) |-> [k \in 1..Len(c[r]) |-> c[r][k] + noise[r][k]]]

InitPool(v, scale, s0) ==
    AddNoise(Tile(v, n_candidates), UniformMatrix(s0, scale, n_candidates, Len(v)))

LoopContinuesShort(n, total) == n + 1 < total

LoopContinuesInclusive(n, total) == n <= total

(* range(steps) at line 19: is there another iteration?                    *)
LoopContinues(n, total) == n < total

(* range(dim) at line 34, 1-based                                          *)
ProbeDims(m) == 1..m

RestoreOmitted(c, r, k, v) == c

PlusProbe(c, r, k, v) == [c EXCEPT ![r][k] = v + h]
MinusProbe(c, r, k, v) == [c EXCEPT ![r][k] = v - h]
Restore(c, r, k, v) == [c EXCEPT ![r][k] = v]

CentralDiff(fp, fm) == (fp - fm) \div (2 * h)

UpdateRuleUnscaled(c, g, r, lr) ==
    [c EXCEPT ![r] = [k \in 1..Len(c[r]) |-> c[r][k] + g[r][k]]]

UpdateRuleBroadcast(c, g, r, lr) ==
    [j \in 1..Len(c) |-> [k \in 1..Len(c[j]) |-> c[j][k] + g[r][k] * lr]]

(* candidates[i] += grads[i] * learning_rate                               *)
UpdateRule(c, g, r, lr) ==
    [c EXCEPT ![r] = [k \in 1..Len(c[r]) |-> c[r][k] + g[r][k] * lr]]

(* the update loop nested in the candidate loop                            *)
AfterComponentFused(r, k, m) ==
    IF k + 1 \in ProbeDims(m) THEN [pc |-> "plus", i |-> r, d |-> k + 1]
    ELSE [pc |-> "update", i |-> r, d |-> 1]

(* candidates whose baseline distance is already >= 0 are passed over      *)
AfterComponentSkipSafe(r, k, m) ==
    IF k + 1 \in ProbeDims(m) THEN [pc |-> "plus", i |-> r, d |-> k + 1]
    ELSE IF \E j \in (r + 1)..n_candidates : dists[j] < 0
         THEN [pc |-> "copy",
               i |-> CHOOSE j \in (r + 1)..n_candidates :
                        /\ dists[j] < 0
                        /\ \A l \in (r + 1)..(j - 1) : dists[l] >= 0,
               d |-> 1]
         ELSE [pc |-> "update", i |-> 1, d |-> 1]

(* where control goes after grads[i, d] is stored (ends of the loops of    *)
(* lines 34 and 31)                                                        *)
AfterComponent(r, k, m) ==
    IF k + 1 \in ProbeDims(m) THEN [pc |-> "plus", i |-> r, d |-> k + 1]
    ELSE IF r < n_candidates THEN [pc |-> "copy", i |-> r + 1, d |-> 1]
    ELSE [pc |-> "update", i |-> 1, d |-> 1]

NoEvals(m) ==
    [e \in (1..n_candidates) \X (1..m) \X {"plus", "minus"} |-> 0]

(* ------------------------------ actions -------------------------------- *)
Init ==
    /\ pc = "idle"
    /\ q = <<>> /\ env = "sphere" /\ steps = 0
    /\ learning_rate = 0 /\ noise_scale = 0
    /\ dim = 0
    /\ rng = 0
    /\ candidates = <<>>
    /\ step = 0
    /\ dists = <<>> /\ grads = <<>>
    /\ i = 1 /\ d = 1
    /\ original_q = <<>> /\ val = 0 /\ f_plus = 0 /\ f_minus = 0
    /\ nsdf = 0
    /\ evals = <<>>
    /\ snapshot = <<>> /\ pool0 = <<>>
    /\ prior = None

Locals0 ==
    /\ step' = 0
    /\ dists' = <<>> /\ grads' = <<>>
    /\ i' = 1 /\ d' = 1
    /\ original_q' = <<>> /\ val' = 0 /\ f_plus' = 0 /\ f_minus' = 0
    /\ nsdf' = 0
    /\ evals' = <<>>
    /\ snapshot' = <<>>

(* lines 6-17: the call, up to the noisy pool                              *)
Enter(qq, e, s, lr, ns) ==
    /\ pc = "idle"
    /\ q' = qq /\ env' = e /\ steps' = s
    /\ learning_rate' = lr /\ noise_scale' = ns
    /\ dim' = Len(qq)
    /\ rng' = Skip(default_rng(Seed), n_candidates * Len(qq))
    /\ candidates' = InitPool(qq, ns, default_rng(Seed))
    /\ pool0' = InitPool(qq, ns, default_rng(Seed))
    /\ Locals0
    /\ pc' = "loop"
    /\ UNCHANGED prior

Call ==
    \E qq \in ValidConfigs, e \in Environments, s \in StepCounts,
       lr \in LearningRates, ns \in NoiseScales : Enter(qq, e, s, lr, ns)

(* line 19 (and line 21 on entry to the body)                              *)
LoopHead ==
    /\ pc = "loop"
    /\ IF LoopContinues(step, steps)
       THEN /\ step' = step + 1
            /\ dists' = Zeros(n_candidates)
            /\ i' = 1
            /\ snapshot' = candidates
            /\ evals' = NoEvals(dim)
            /\ pc' = "dist"
       ELSE /\ pc' = "done"
            /\ UNCHANGED <<step, dists, i, snapshot, evals>>
    /\ UNCHANGED <<q, env, steps, learning_rate, noise_scale, dim, rng,
                   candidates, grads, d, original_q, val, f_plus, f_minus,
                   nsdf, pool0, prior>>

(* line 23: dists[i] = robot.sdf(candidates[i], env); after the last       *)
(* candidate, line 28                                                      *)
ComputeDist ==
    /\ pc = "dist"
    /\ nsdf' = nsdf + 1
    /\ IF SdfRaises(candidates[i])
       THEN /\ pc' = "raised"
            /\ UNCHANGED <<dists, i, grads>>
       ELSE /\ dists' = [dists EXCEPT ![i] = sdf(candidates[i], env)]
            /\ IF i < n_candidates
               THEN /\ i' = i + 1
                    /\ pc' = "dist"
                    /\ UNCHANGED grads
               ELSE /\ i' = 1
                    /\ grads' = [r \in 1..n_candidates |-> Zeros(dim)]
                    /\ pc' = "copy"
    /\ UNCHANGED <<q, env, steps, learning_rate, noise_scale, dim, rng,
                   candidates, step, d, original_q, val, f_plus, f_minus,
                   evals, snapshot, pool0, prior>>

(* line 33: original_q = candidates[i].copy()                              *)
CopyOriginal ==
    /\ pc = "copy"
    /\ original_q' = candidates[i]
    /\ d' = 1
    /\ pc' = "plus"
    /\ UNCHANGED <<q, env, steps, learning_rate, noise_scale, dim, rng,
                   candidates, step, dists, grads, i, val, f_plus, f_minus,
                   nsdf, evals, snapshot, pool0, prior>>

(* lines 35-39: val, the plus-probe and its evaluation                     *)
ProbePlus ==
    /\ pc = "plus"
    /\ val' = original_q[d]
    /\ candidates' = PlusProbe(candidates, i, d, original_q[d])
    /\ f_plus' = sdf(candidates'[i], env)
    /\ nsdf' = nsdf + 1
    /\ evals' = [evals EXCEPT ![<<i, d, "plus">>] = @ + 1]
    /\ pc' = "minus"
    /\ UNCHANGED <<q, env, steps, learning_rate, noise_scale, dim, rng, step,
                   dists, grads, i, d, original_q, f_minus, snapshot, pool0,
                   prior>>

(* lines 42-43: the minus-probe and its evaluation                         *)
ProbeMinus ==
    /\ pc = "minus"
    /\ candidates' = MinusProbe(candidates, i, d, val)
    /\ f_minus' = sdf(candidates'[i], env)
    /\ nsdf' = nsdf + 1
    /\ evals' = [evals EXCEPT ![<<i, d, "minus">>] = @ + 1]
    /\ pc' = "restore"
    /\ UNCHANGED <<q, env, steps, learning_rate, noise_scale, dim, rng, step,
                   dists, grads, i, d, original_q, val, f_plus, snapshot,
                   pool0, prior>>

(* lines 46-48: restore the coordinate, store the component, next d / i    *)
RestoreGrad ==
    /\ pc = "restore"
    /\ candidates' = Restore(candidates, i, d, val)
    /\ grads' = [grads EXCEPT ![i][d] = CentralDiff(f_plus, f_minus)]
    /\ pc' = AfterComponent(i, d, dim).pc
    /\ i' = AfterComponent(i, d, dim).i
    /\ d' = AfterComponent(i, d, dim).d
    /\ UNCHANGED <<q, env, steps, learning_rate, noise_scale, dim, rng, step,
                   dists, original_q, val, f_plus, f_minus, nsdf, evals,
                   snapshot, pool0, prior>>

(* lines 52-53: one iteration of the update loop                           *)
Update ==
    /\ pc = "update"
    /\ candidates' = UpdateRule(candidates, grads, i, learning_rate)
    /\ IF i < n_candidates
       THEN i' = i + 1 /\ pc' = "update"
       ELSE i' = 1 /\ pc' = "loop"
    /\ UNCHANGED <<q, env, steps, learning_rate, noise_scale, dim, rng, step,
                   dists, grads, d, original_q, val, f_plus, f_minus, nsdf,
                   evals, snapshot, pool0, prior>>

Forget ==
    /\ q' = <<>> /\ env' = "sphere" /\ steps' = 0
    /\ learning_rate' = 0 /\ noise_scale' = 0
    /\ dim' = 0
    /\ candidates' = <<>>
    /\ pool0' = <<>>
    /\ Locals0

(* line 55: return candidates; the caller drops the result                 *)
Return ==
    /\ pc = "done"
    /\ pc' = "idle"
    /\ Forget
    /\ prior' = IF prior = None THEN None ELSE [prior EXCEPT !.between = TRUE]
    /\ UNCHANGED rng

(* line 55 with a caller that keeps the result (lines 90-94 of once)       *)
Remember ==
    /\ pc = "done"
    /\ prior = None
    /\ prior' = [q |-> q, env |-> env, steps |-> steps,
                 learning_rate |-> learning_rate, noise_scale |-> noise_scale,
                 initial |-> pool0, final |-> candidates, between |-> FALSE]
    /\ pc' = "idle"
    /\ Forget
    /\ UNCHANGED rng

(* a call whose configuration has not the robot's dimension                *)
CallShort ==
    \E qq \in ShortConfigs, e \in Environments, s \in StepCounts,
       lr \in LearningRates, ns \in NoiseScales : Enter(qq, e, s, lr, ns)

Body == LoopHead \/ ComputeDist \/ CopyOriginal \/ ProbePlus \/ ProbeMinus
        \/ RestoreGrad \/ Update

Next == Call \/ Body \/ Return

Spec == Init /\ [][Next]_vars

FairSpec == Spec /\ WF_vars(Next)

PairNext == Call \/ Body \/ Return \/ Remember

PairSpec == Init /\ [][PairNext]_vars

AnyNext == Call \/ CallShort \/ Body \/ Return

AnySpec == Init /\ [][AnyNext]_vars

(* ------------------------------ claims --------------------------------- *)
Rows == 1..n_candidates

Shift(c, k, delta) == [c EXCEPT ![k] = @ + delta]

(* the central difference of the SDF at candidate j of the step's snapshot *)
SnapshotGradient(j, k) ==
    (sdf(Shift(snapshot[j], k, h), env) - sdf(Shift(snapshot[j], k, -h), env))
        \div (2 * h)

(* C1: within a step every gradient is computed from the pool as the       *)
(* previous step left it (the snapshot), and no update of the step is      *)
(* applied before all K gradients of the step have been computed: while    *)
(* gradients are being estimated the pool is the snapshot but for the one  *)
(* coordinate under probe, every stored component is the snapshot's        *)
(* central difference, and once updating begins all K gradients are the    *)
(* snapshot's and the rows not yet updated are still the snapshot's.       *)
C1_Barrier ==
    /\ pc \in {"dist", "copy", "plus"} => candidates = snapshot
    /\ pc \in {"minus", "restore"} =>
          \A j \in Rows : \A k \in 1..dim :
              (j # i \/ k # d) => candidates[j][k] = snapshot[j][k]
    /\ pc \in {"copy", "plus", "minus", "restore"} =>
          \A j \in Rows : \A k \in 1..dim :
              (j < i \/ (j = i /\ pc # "copy" /\ k < d))
                  => grads[j][k] = SnapshotGradient(j, k)
    /\ pc = "update" =>
          /\ \A j \in Rows : \A k \in 1..dim :
                 grads[j][k] = SnapshotGradient(j, k)
          /\ \A j \in Rows : j >= i => candidates[j] = snapshot[j]

C1_Witness ==
    /\ pc = "update" /\ i = n_candidates /\ step >= 2
    /\ snapshot # pool0
    /\ candidates[1] # snapshot[1]
    /\ \E k \in 1..dim : grads[n_candidates][k] # 0

(* C2: for every steps >= 0 the call performs exactly `steps` iterations   *)
(* (each one K baseline evaluations and 2*D probes per candidate, then the *)
(* update), and then reaches the terminal state: whenever the loop head is *)
(* reached the call eventually returns, and on return steps iterations     *)
(* have been run.                                                          *)
C2_ExactlySteps ==
    /\ [](pc = "done" =>
            /\ step = steps
            /\ nsdf = steps * n_candidates * (2 * dim + 1))
    /\ [](pc \in {"dist", "copy", "plus", "minus", "restore", "update"}
            => step <= steps)
    /\ ((pc = "loop") ~> (pc = "done"))

C2_Witness ==
    /\ pc = "done" /\ steps = MaxSteps /\ step = MaxSteps
    /\ candidates # pool0

(* C3: the plus-probe and the minus-probe of dimension d differ from the   *)
(* candidate's pre-probe configuration in coordinate d alone, by +h and    *)
(* -h; before each dimension is probed and when the candidate's gradient   *)
(* is complete the candidate is its pre-probe configuration again.         *)
C3_ProbeIsolation ==
    /\ pc = "plus" => candidates[i] = original_q
    /\ pc = "minus" =>
          /\ candidates[i] = Shift(original_q, d, h)
          /\ f_plus = sdf(Shift(original_q, d, h), env)
    /\ pc = "restore" =>
          /\ candidates[i] = Shift(original_q, d, -h)
          /\ f_minus = sdf(Shift(original_q, d, -h), env)
    /\ (pc = "copy" /\ i > 1) => candidates[i - 1] = original_q
    /\ (pc = "update" /\ i = 1) => candidates[n_candidates] = original_q

C3_Witness ==
    /\ pc = "plus" /\ d > 1
    /\ grads[i][d - 1] # 0
    /\ f_plus # f_minus

(* C4: in every state of a call the pool holds exactly K = 8 candidates,   *)
(* each of D = len(q) coordinates.                                         *)
C4_PoolShape ==
    pc # "idle" =>
        /\ Len(candidates) = 8
        /\ dim = Len(q)
        /\ \A r \in 1..Len(candidates) : Len(candidates[r]) = Len(q)

C4_Witness ==
    /\ pc = "done" /\ steps = MaxSteps
    /\ learning_rate = 1 /\ noise_scale = 1
    /\ candidates # pool0

(* C5: with steps = 0 the call returns the pool of the initializer         *)
(* (q plus a noise in [-noise_scale, noise_scale) per coordinate) and      *)
(* makes no SDF evaluation.                                                *)
C5_ZeroSteps ==
    (pc = "done" /\ steps = 0) =>
        /\ candidates = pool0
        /\ nsdf = 0
        /\ \A r \in Rows : \A k \in 1..Len(q) :
               /\ -noise_scale <= candidates[r][k] - q[k]
               /\ candidates[r][k] - q[k] <= noise_scale

C5_Witness ==
    /\ pc = "done" /\ steps = 0 /\ noise_scale = 1
    /\ \E r \in Rows : candidates[r] # q

(* C6: with learning_rate = 0 every update leaves the pool as it was, so   *)
(* the returned pool is the initializer's, whatever the number of steps.   *)
C6_ZeroRate ==
    (learning_rate = 0 /\ pc \in {"update", "loop", "done"})
        => candidates = pool0

C6_Witness ==
    /\ pc = "done" /\ learning_rate = 0 /\ steps = MaxSteps
    /\ \E r \in Rows : \E k \in 1..dim : grads[r][k] # 0

(* C7: a call with the arguments of a remembered earlier call returns the  *)
(* pool that call returned, whatever calls were made in between.           *)
C7_Deterministic ==
    (/\ pc = "done"
     /\ prior # None
     /\ prior.q = q /\ prior.env = env /\ prior.steps = steps
     /\ prior.learning_rate = learning_rate
     /\ prior.noise_scale = noise_scale)
        => /\ pool0 = prior.initial
           /\ candidates = prior.final

C7_Witness ==
    /\ pc = "done"
    /\ prior # None
    /\ prior.q = q /\ prior.env = env /\ prior.steps = steps
    /\ prior.learning_rate = learning_rate
    /\ prior.noise_scale = noise_scale
    /\ prior.between
    /\ noise_scale = 1 /\ learning_rate = 1 /\ steps >= 1
    /\ \E r \in Rows : pool0[r] # q
    /\ candidates # pool0

(* C8: a configuration whose length is not the robot's D makes the call    *)
(* fail before any SDF evaluation: no evaluation is attempted and no pool  *)
(* is returned.                                                            *)
C8_FailFast ==
    (pc # "idle" /\ Len(q) # RobotDim) => (nsdf = 0 /\ pc # "done")

(* C9: in every step each candidate and each dimension gets exactly one    *)
(* plus-probe and one minus-probe (2*D probe evaluations per candidate),   *)
(* whether or not the candidate's baseline distance is already >= 0.       *)
C9_EveryProbe ==
    /\ \A e \in DOMAIN evals : evals[e] <= 1
    /\ pc \in {"copy", "plus", "minus", "restore"} =>
          \A j \in Rows : \A k \in 1..dim :
              j < i => (evals[<<j, k, "plus">>] = 1 /\ evals[<<j, k, "minus">>] = 1)
    /\ pc = "update" =>
          /\ DOMAIN evals = Rows \X (1..dim) \X {"plus", "minus"}
          /\ \A e \in DOMAIN evals : evals[e] = 1
          /\ \A j \in Rows :
                 Cardinality({e \in DOMAIN evals : e[1] = j /\ evals[e] = 1})
                     = 2 * dim

C9_Witness ==
    /\ pc = "update" /\ step = MaxSteps
    /\ \E j \in Rows : dists[j] >= 0
    /\ \E j \in Rows : dists[j] < 0
    /\ \A e \in DOMAIN evals : evals[e] = 1

(* C10: for a fixed environment, steps and learning_rate the final value   *)
(* of candidate r depends on its own initial value alone: a call whose     *)
(* initial pool agrees with a remembered call's on candidate r returns the *)
(* same final candidate r, however the other candidates differ.            *)
C10_Independent ==
    (/\ pc = "done"
     /\ prior # None
     /\ prior.env = env /\ prior.steps = steps
     /\ prior.learning_rate = learning_rate)
        => \A r \in Rows :
               prior.initial[r] = pool0[r] => prior.final[r] = candidates[r]

C10_Witness ==
    /\ pc = "done"
    /\ prior # None
    /\ prior.env = env /\ prior.steps = steps
    /\ prior.learning_rate = learning_rate
    /\ steps >= 1 /\ learning_rate = 1
    /\ \E r \in Rows : \E j \in Rows :
           /\ prior.initial[r] = pool0[r]
           /\ prior.initial[j] # pool0[j]
           /\ candidates[r] # pool0[r]
           /\ prior.final[j] # candidates[j]

====
